---- MODULE Spec2Model ----
(***************************************************************************)
(* Model of icevision/tfms/albumentations/tfms.py: the albumentations      *)
(* Adapter (Adapter.__init__, Adapter.apply), the pipeline builders        *)
(* (aug_tfms, resize_and_pad) and the helpers filter_keypoints,            *)
(* filter_boxes, py3round, _func_max_size, get_transform and               *)
(* _check_kps_coords.                                                      *)
(***************************************************************************)
EXTENDS Integers, Sequences, FiniteSets, TLC

VARIABLES
    tfms_list,    \* Adapter: self.tfms.transforms.transforms (the operation list)
    processors,   \* Adapter: self.tfms.processors (keys of the Compose registry)
    pc,           \* Adapter: "idle", or how the last apply call ended
    call,         \* Adapter: the arguments of the last apply call
    d,            \* Adapter: what the underlying pipeline returned in that call
    out,          \* Adapter: what apply returned in that call
    sizecall,     \* the last call of _func_max_size: arguments and result
    boxcall,      \* the last call of filter_boxes: arguments and result
    kpcall        \* the last call of filter_keypoints: arguments, heap, result

vars == <<tfms_list, processors, pc, call, d, out, sizecall, boxcall, kpcall>>

adapterVars == <<tfms_list, processors, pc, call, d, out>>

(***************************************************************************)
(* Bounds of the model.                                                    *)
(***************************************************************************)
\* largest height, width and max_size given to _func_max_size
MaxDim == 22
\* largest coordinate and content side given to filter_boxes
MaxBoxCoord == 5
\* largest coordinate and content side given to filter_keypoints
MaxKpCoord == 3
\* largest number of points given to one filter_keypoints call
MaxKps == 1
\* largest number of instances in one sample given to Adapter.apply
MaxN == 2
\* largest number of keypoints of one sample, all instances together
MaxPoints == 3

None == "None"

NoCall == [fn |-> None]

Max2(a, b) == IF a >= b THEN a ELSE b

Min2(a, b) == IF a <= b THEN a ELSE b

Pow2(n) == IF n <= 0 THEN 1 ELSE 2 ^ n

(***************************************************************************)
(* Python floats (IEEE-754 binary64) of the magnitudes the size arithmetic *)
(* meets.  A float is [l2, l1, l0, e] and stands for                       *)
(*      (l2 * 2^36 + l1 * 2^18 + l0) * 2^(e - 52);                         *)
(* the three limbs keep every intermediate product below 2^31.             *)
(***************************************************************************)
Limb == 512 * 512

TopOne == 256 * 256

\* the exponent e with b * 2^e <= a < b * 2^(e+1), for integers a, b > 0
RECURSIVE FloatExponent(_, _)
FloatExponent(a, b) ==
    IF a >= 2 * b THEN 1 + FloatExponent(a, 2 * b)
    ELSE IF a < b THEN FloatExponent(2 * a, b) - 1
    ELSE 0

\* limbs + 2^s, carrying upwards
LimbsAdd(f, s) ==
    LET n0 == f.l0 + Pow2(s)
        n1 == f.l1 + (n0 \div Limb)
        n2 == f.l2 + (n1 \div Limb)
    IN  [f EXCEPT !.l0 = n0 % Limb, !.l1 = n1 % Limb, !.l2 = n2]

\* a / float(b): the correctly rounded (nearest, ties to even) quotient
FloatDiv(a, b) ==
    LET e  == FloatExponent(a, b)
        an == IF e < 0 THEN a * Pow2(-e) ELSE a
        bn == IF e > 0 THEN b * Pow2(e) ELSE b
        r0 == an - bn
        t2 == r0 * TopOne
        t1 == (t2 % bn) * Limb
        t0 == (t1 % bn) * Limb
        r3 == t0 % bn
        q  == [l2 |-> TopOne + (t2 \div bn), l1 |-> t1 \div bn,
               l0 |-> t0 \div bn, e |-> e]
        up == (2 * r3 > bn) \/ (2 * r3 = bn /\ q.l0 % 2 = 1)
        qr == IF up THEN LimbsAdd(q, 0) ELSE q
    IN  IF qr.l2 = 2 * TopOne
        THEN [l2 |-> TopOne, l1 |-> 0, l0 |-> 0, e |-> e + 1]
        ELSE qr

\* the number of bits by which the top limb exceeds a 53-bit mantissa
RECURSIVE ExtraBits(_)
ExtraBits(top) == IF top >= 2 * TopOne THEN 1 + ExtraBits(top \div 2) ELSE 0

\* dim * f for an integer dim > 0: the exact product rounded to 53 bits
FloatMulInt(dim, f) ==
    LET p0 == f.l0 * dim
        p1 == f.l1 * dim + (p0 \div Limb)
        p2 == f.l2 * dim + (p1 \div Limb)
        s  == ExtraBits(p2)
        q0 == p0 % Limb
        low == q0 % Pow2(s)
        half == Pow2(s - 1)
        kept == [l2 |-> p2, l1 |-> p1 % Limb, l0 |-> q0 - low, e |-> f.e]
        up == s > 0 /\ (low > half \/ (low = half /\ (q0 \div Pow2(s)) % 2 = 1))
    IN  IF up THEN LimbsAdd(kept, s) ELSE kept

FloatOne == [l2 |-> TopOne, l1 |-> 0, l0 |-> 0, e |-> 0]

\* number / 2.0 (exact)
FloatHalf(f) == [f EXCEPT !.e = @ - 1]

\* floor(f) and how the fractional part of f compares with one half
FloatParts(f) ==
    LET k  == 16 - f.e
        ip == f.l2 \div Pow2(k)
        t  == f.l2 % Pow2(k)
        h  == Pow2(k - 1)
        lo == f.l1 > 0 \/ f.l0 > 0
    IN  [int |-> ip,
         frac |-> IF t > h \/ (t = h /\ lo) THEN "above"
                  ELSE IF t = h THEN "tie" ELSE "below"]

\* Python 3's builtin round(number) on a float: nearest, ties to even
PyRound(f) ==
    LET p == FloatParts(f)
    IN  IF p.frac = "above" \/ (p.frac = "tie" /\ p.int % 2 = 1)
        THEN p.int + 1 ELSE p.int

\* a rounding that sends every tie upwards
py3round_half_up(number) ==
    LET p == FloatParts(number)
    IN  IF p.frac = "below" THEN p.int ELSE p.int + 1

py3round(number) ==
    IF FloatParts(number).frac = "tie"
    THEN 2 * PyRound(FloatHalf(number))
    ELSE PyRound(number)

FuncApply(func, a, b) == IF func = "min" THEN Min2(a, b) ELSE Max2(a, b)

func_max_size(height, width, max_size, func) ==
    LET scale == FloatDiv(max_size, FuncApply(func, width, height))
    IN  IF scale # FloatOne
        THEN <<py3round(FloatMulInt(height, scale)),
               py3round(FloatMulInt(width, scale))>>
        ELSE <<height, width>>

(***************************************************************************)
(* Geometry filters.                                                       *)
(***************************************************************************)
filter_boxes(xyxy, h, w) ==
    LET x1 == xyxy[1]
        y1 == xyxy[2]
        x2 == xyxy[3]
        y2 == xyxy[4]
    IN  IF w >= h
        THEN LET pad == (w - h) \div 2
                 h1 == pad
                 h2 == w - pad
             IN  <<x1, Max2(y1, h1), x2, Min2(y2, h2)>>
        ELSE LET pad == (h - w) \div 2
                 w1 == pad
                 w2 == h - pad
             IN  <<Max2(x1, w1), y1, Min2(x2, w2), y2>>

check_kps_coords(p, h, w) ==
    LET x == p[1]
        y == p[2]
    IN  IF w >= h
        THEN LET pad == (w - h) \div 2
                 h1 == pad
                 h2 == w - pad
             IN  IF x <= w /\ x >= 0 /\ y >= h1 /\ y <= h2 THEN 1 ELSE 0
        ELSE LET pad == (h - w) \div 2
                 w1 == pad
                 w2 == h - pad
             IN  IF x <= w2 /\ x >= w1 /\ y >= 0 /\ y <= h THEN 1 ELSE 0

(***************************************************************************)
(* Python lists are objects: a heap maps each list's reference to its      *)
(* elements, and list.copy() allocates a new reference.                    *)
(***************************************************************************)
Refs == {"tfms_kps", "v", "tra_n", "v_n"}

\* no copy: the new name refers to the caller's list
ListAlias(heap, src, fresh) == [ref |-> src, heap |-> heap]

ListCopy(heap, src, fresh) ==
    [ref |-> fresh, heap |-> [heap EXCEPT ![fresh] = heap[src]]]

\* one pass of the loop body of filter_keypoints, for Python index i - 1
FilterKeypointsBody(heap, tra_n, v_n, i, h, w) ==
    LET a == IF heap["v"][i] > 0
             THEN [heap EXCEPT ![v_n][i] = check_kps_coords(heap["tfms_kps"][i], h, w)]
             ELSE heap
        b == IF heap["v"][i] > 0 /\ a[v_n][i] = 1
             THEN [a EXCEPT ![v_n][i] = a["v"][i]]
             ELSE a
        c == IF b[v_n][i] = 0 THEN [b EXCEPT ![tra_n][i] = <<0, 0>>] ELSE b
    IN  [c EXCEPT ![tra_n][i] = <<c[tra_n][i][1], c[tra_n][i][2], c[v_n][i]>>]

RECURSIVE FilterKeypointsLoop(_, _, _, _, _, _, _)
FilterKeypointsLoop(heap, tra_n, v_n, i, n, h, w) ==
    IF i > n THEN heap
    ELSE FilterKeypointsLoop(FilterKeypointsBody(heap, tra_n, v_n, i, h, w),
                             tra_n, v_n, i + 1, n, h, w)

\* the heap after filter_keypoints(tfms_kps, h, w, v) and the list it returns
FilterKeypointsRun(tfms_kps, h, w, v) ==
    LET heap0 == [r \in Refs |-> IF r = "tfms_kps" THEN tfms_kps
                                 ELSE IF r = "v" THEN v ELSE <<>>]
        c1 == ListCopy(heap0, "v", "v_n")
        c2 == ListCopy(c1.heap, "tfms_kps", "tra_n")
        end == FilterKeypointsLoop(c2.heap, c2.ref, c1.ref, 1, Len(tfms_kps), h, w)
    IN  [heap |-> end, result |-> end[c2.ref]]

filter_keypoints(tfms_kps, h, w, v) == FilterKeypointsRun(tfms_kps, h, w, v).result

(***************************************************************************)
(* Pipeline builders.  An operation is a record whose kind is the name of  *)
(* its albumentations class.                                               *)
(***************************************************************************)
\* size and presize of examples/pennfundan.py
size == 384

presize == 512

\* Python values that an argument may hold in place of a transform
PyNone == [type |-> "NoneType"]

PyInt(n) == [type |-> "int", v |-> n]

PyTuple(h, w) == [type |-> "tuple", v |-> <<h, w>>]

Partial(cls) == [type |-> "partial", cls |-> cls]

Op(kind) == [type |-> "transform", kind |-> kind]

IsInt(sz) == sz.type = "int"

IsNone(x) == x.type = "NoneType"

resize(sz, ratio_resize) ==
    IF IsInt(sz) THEN [type |-> "transform", kind |-> ratio_resize, max_size |-> sz.v]
    ELSE [type |-> "transform", kind |-> "Resize",
          height |-> sz.v[1], width |-> sz.v[2]]

\* pad(min_height=height, min_width=width), pad a partial of A.PadIfNeeded;
\* crop_fn(height=height, width=width), crop_fn a partial of
\* A.RandomSizedBBoxSafeCrop
CallPartial(fn, height, width) ==
    IF fn.cls = "PadIfNeeded"
    THEN [type |-> "transform", kind |-> fn.cls,
          min_height |-> height, min_width |-> width]
    ELSE [type |-> "transform", kind |-> fn.cls,
          height |-> height, width |-> width]

DropNone(tfms) == SelectSeq(tfms, LAMBDA t : ~IsNone(t))

resize_and_pad(sz, pad) ==
    LET height == IF IsInt(sz) THEN sz.v ELSE sz.v[1]
        width  == IF IsInt(sz) THEN sz.v ELSE sz.v[2]
    IN  <<resize(sz, "LongestMaxSize"), CallPartial(pad, height, width)>>

aug_tfms(sz, psz, horizontal_flip, shift_scale_rotate, rgb_shift, lightning, blur, crop_fn, pad) ==
    LET height == IF IsInt(sz) THEN sz.v ELSE sz.v[1]
        width  == IF IsInt(sz) THEN sz.v ELSE sz.v[2]
        t1 == <<IF ~IsNone(psz) THEN resize(psz, "SmallestMaxSize") ELSE PyNone>>
        t2 == t1 \o <<horizontal_flip, shift_scale_rotate, rgb_shift, lightning, blur>>
        t3 == IF ~IsNone(crop_fn)
              THEN t2 \o <<[type |-> "transform", kind |-> "OneOrOther",
                            first |-> CallPartial(crop_fn, height, width),
                            second |-> resize(sz, "LongestMaxSize")]>>
              ELSE t2 \o <<resize(sz, "LongestMaxSize")>>
        t4 == t3 \o <<IF ~IsNone(pad) THEN CallPartial(pad, height, width) ELSE PyNone>>
    IN  DropNone(t4)

\* `t in str(type(el))`: t occurs in the printed class of the operation
TypeNameContains(kind, t) == t = kind \/ (t = "Pad" /\ kind = "PadIfNeeded")

RECURSIVE get_transform_from(_, _, _)
get_transform_from(tfms, t, i) ==
    IF i > Len(tfms) THEN PyNone
    ELSE IF TypeNameContains(tfms[i].kind, t) THEN tfms[i]
    ELSE get_transform_from(tfms, t, i + 1)

get_transform(tfms, t) == get_transform_from(tfms, t, 1)

(***************************************************************************)
(* Adapter.                                                                *)
(***************************************************************************)
\* the keys of Compose.processors that bbox_params and keypoint_params create
AllProcessors == {"bboxes", "keypoints"}

\* the pipelines an Adapter is built on: aug_tfms as in examples/pennfundan.py,
\* aug_tfms with crop_fn=None (with and without pad), and resize_and_pad,
\* each followed by Normalize
DefaultAug(psz, crop_fn, pad) ==
    aug_tfms(PyInt(size), psz, Op("HorizontalFlip"), Op("ShiftScaleRotate"),
             Op("RGBShift"), Op("RandomBrightnessContrast"), Op("Blur"),
             crop_fn, pad) \o <<Op("Normalize")>>

DefaultCrop == Partial("RandomSizedBBoxSafeCrop")

DefaultPad == Partial("PadIfNeeded")

Pipelines ==
    { DefaultAug(PyInt(presize), DefaultCrop, DefaultPad),
      DefaultAug(PyInt(presize), PyNone, DefaultPad),
      DefaultAug(PyNone, PyNone, PyNone),
      resize_and_pad(PyInt(size), DefaultPad) \o <<Op("Normalize")>> }

\* the shapes (height, width) of the images of the samples
ImgShapes == {<<300, 500>>, <<500, 300>>}

Init ==
    /\ tfms_list \in Pipelines
    /\ processors = AllProcessors
    /\ pc = "idle"
    /\ call = NoCall
    /\ d = NoCall
    /\ out = NoCall
    /\ sizecall = NoCall
    /\ boxcall = NoCall
    /\ kpcall = NoCall

(***************************************************************************)
(* Python list helpers.                                                    *)
(***************************************************************************)
RECURSIVE Chain(_)
Chain(ss) == IF ss = <<>> THEN <<>> ELSE Head(ss) \o Chain(Tail(ss))

RECURSIVE SortedSeq(_)
SortedSeq(S) ==
    IF S = {} THEN <<>>
    ELSE LET m == CHOOSE x \in S : \A y \in S : x <= y
         IN  <<m>> \o SortedSeq(S \ {m})

\* sum(k) of a list of numbers, each carrying the point it came from
RECURSIVE Sum(_)
Sum(k) == IF k = <<>> THEN 0 ELSE Head(k).val + Sum(Tail(k))

\* [xs[j] for xs[j], k in zip(xs, l) if sum(k) > 0]
ZipKeep(xs, l) ==
    LET js == SortedSeq({j \in 1..Min2(Len(xs), Len(l)) : Sum(l[j]) > 0})
    IN  [i \in 1..Len(js) |-> xs[js[i]]]

\* [l[i : i + c] for i in range(0, len(l), c)]
Chunks(l, c) ==
    LET m == (Len(l) + c - 1) \div c
    IN  [j \in 1..m |-> SubSeq(l, (j - 1) * c + 1, Min2(j * c, Len(l)))]

(***************************************************************************)
(* The underlying pipeline (albumentations.Compose.__call__), as far as    *)
(* Adapter.apply depends on it: the shape of the image it returns, the     *)
(* boxes it keeps together with their entries of the label field, the      *)
(* masks, and one keypoint out for each keypoint in.                       *)
(***************************************************************************)
ShapeAfterOp(op, shape) ==
    CASE op.kind = "SmallestMaxSize" ->
            func_max_size(shape[1], shape[2], op.max_size, "min")
      [] op.kind = "LongestMaxSize" ->
            func_max_size(shape[1], shape[2], op.max_size, "max")
      [] op.kind \in {"Resize", "RandomSizedBBoxSafeCrop"} ->
            <<op.height, op.width>>
      [] op.kind = "PadIfNeeded" ->
            <<Max2(shape[1], op.min_height), Max2(shape[2], op.min_width)>>
      [] OTHER -> shape

RECURSIVE PipelineShape(_, _, _, _)
PipelineShape(tfms, i, shape, crop) ==
    IF i > Len(tfms) THEN shape
    ELSE LET op == IF tfms[i].kind = "OneOrOther"
                   THEN (IF crop THEN tfms[i].first ELSE tfms[i].second)
                   ELSE tfms[i]
         IN  PipelineShape(tfms, i + 1, ShapeAfterOp(op, shape), crop)

\* the shape of the image the pipeline returns, for each pipeline, image shape
\* and branch of OneOrOther
ImageShapes ==
    [t \in Pipelines, img \in ImgShapes, crop \in BOOLEAN |->
        PipelineShape(t, 1, img, crop)]

\* o is the pipeline's draw: kept (the boxes it keeps), crop (the branch of
\* OneOrOther), fails (it raises), moved (where each keypoint lands)
RunPipeline(tfms, procs, params, o) ==
    LET keep == SortedSeq(o.kept)
    IN  [fn |-> "Compose",
         image |-> ImageShapes[tfms, params.image, o.crop],
         labels |-> IF params.bboxes = <<>> THEN params.labels
                    ELSE [j \in 1..Len(keep) |-> params.labels[keep[j] + 1]],
         bboxes |-> [j \in 1..Len(keep) |->
                       [src |-> keep[j], val |-> o.boxes[keep[j] + 1]]],
         masks |-> params.masks,
         keypoints |-> o.moved]

(***************************************************************************)
(* Adapter.apply.  A value of an instance-indexed field is carried with    *)
(* src, the 0-based position of the instance of the call it belongs to; a  *)
(* number of the flattened keypoint list is carried with pt, the position  *)
(* of the point it belongs to.                                             *)
(***************************************************************************)
\* height_size, width_size: the original image size taken through the
\* SmallestMaxSize and LongestMaxSize bounds of the pipeline
ContentSize(tfms, img) ==
    LET t  == get_transform(tfms, "SmallestMaxSize")
        s1 == IF ~IsNone(t)
              THEN func_max_size(img[1], img[2], t.max_size, "min") ELSE img
        t2 == get_transform(tfms, "LongestMaxSize")
    IN  IF ~IsNone(t2)
        THEN func_max_size(s1[1], s1[2], t2.max_size, "max") ELSE s1

\* ContentSize for each pipeline and image shape
ContentSizes ==
    [t \in Pipelines, img \in ImgShapes |-> ContentSize(t, img)]

\* list(chain.from_iterable(tfms_kps_n))
ChainTriples(tfms_kps_n) ==
    [i \in 1..(3 * Len(tfms_kps_n)) |->
        [val |-> tfms_kps_n[((i - 1) \div 3) + 1][((i - 1) % 3) + 1],
         pt  |-> ((i - 1) \div 3) + 1]]

\* l: the flat list cut into len(l) // len(keypoints) numbers apiece
Regroup(lflat, nkeypoints) == Chunks(lflat, Len(lflat) \div nkeypoints)

OutKeypoints(l, cl) ==
    LET kept == ZipKeep(l, l)
    IN  [i \in 1..Len(kept) |-> [xyv |-> kept[i], labels |-> cl]]

OutLabels(labels, dlabels, l, hasKp) ==
    LET base == [j \in 1..Len(dlabels) |->
                    [src |-> dlabels[j], val |-> labels[dlabels[j] + 1]]]
    IN  IF hasKp THEN ZipKeep(base, l) ELSE base

OutBboxes(dbboxes, h, w, l, hasKp) ==
    LET bb == [j \in 1..Len(dbboxes) |->
                  [src |-> dbboxes[j].src,
                   val |-> filter_boxes(dbboxes[j].val, h, w)]]
    IN  IF hasKp THEN ZipKeep(bb, l) ELSE bb

\* masks re-indexed by the returned label indices only
OutMasksUnfiltered(dmasks, dlabels, l, hasKp) ==
    [j \in 1..Len(dlabels) |-> dmasks[dlabels[j] + 1]]

OutMasks(dmasks, dlabels, l, hasKp) ==
    LET keep_masks == [j \in 1..Len(dlabels) |-> dmasks[dlabels[j] + 1]]
    IN  IF hasKp THEN ZipKeep(keep_masks, l) ELSE keep_masks

OutIscrowds(iscrowds, dlabels, l, hasKp) ==
    LET base == [j \in 1..Len(dlabels) |->
                    [src |-> dlabels[j], val |-> iscrowds[dlabels[j] + 1]]]
    IN  IF hasKp THEN ZipKeep(base, l) ELSE base

\* self.tfms.processors after the two pops of apply
AfterPops(procs, has) ==
    (procs \ (IF "bboxes" \notin has THEN {"bboxes"} ELSE {}))
        \ (IF "keypoints" \notin has THEN {"keypoints"} ELSE {})

Raised(exc, procs, dd) == [pc |-> exc, processors |-> procs, d |-> dd, out |-> NoCall]

\* the assertion on crop_fn never fails
CropCheckSkipped(tfms, hasKp) == FALSE

\* `assert get_transform(tfms_list, "OneOrOther") is None` fails
CropCheckFails(tfms, hasKp) ==
    hasKp /\ ~IsNone(get_transform(tfms, "OneOrOther"))

\* the second half of apply, lines 181-217: the returned fields, given the
\* pipeline's result dd, the size basis the boxes are clipped against and
\* the keypoint groups l
ApplyOut(procs1, c, dd, basis, l) ==
    LET hasKp == "keypoints" \in c.has
    IN  [pc |-> "returned", processors |-> procs1, d |-> dd,
         out |->
           [fn |-> "apply", has |-> c.has, height |-> dd.image[1],
            width |-> dd.image[2],
            keypoints |-> IF hasKp THEN OutKeypoints(l, c.keypoints[1].labels)
                          ELSE <<>>,
            labels |-> IF "labels" \in c.has
                       THEN OutLabels(c.labels, dd.labels, l, hasKp) ELSE <<>>,
            bboxes |-> IF "bboxes" \in c.has
                       THEN OutBboxes(dd.bboxes, basis[1], basis[2], l, hasKp)
                       ELSE <<>>,
            masks |-> IF "masks" \in c.has
                      THEN OutMasks(dd.masks, dd.labels, l, hasKp) ELSE <<>>,
            iscrowds |-> IF "iscrowds" \in c.has
                         THEN OutIscrowds(c.iscrowds, dd.labels, l, hasKp)
                         ELSE <<>>]]

\* lines 172-191: l is cut from the flat list lflat; sizeBound tells whether
\* height_size and width_size were assigned
ApplyGroups(procs1, c, dd, basis, lflat, padFound, sizeBound) ==
    LET hasKp == "keypoints" \in c.has
        n == Len(c.keypoints)
    IN  IF hasKp /\ n = 0
        THEN Raised("ZeroDivisionError", procs1, dd)
        ELSE IF hasKp /\ Len(lflat) \div n = 0
        THEN Raised("ValueError", procs1, dd)
        ELSE IF hasKp /\ Len(Chunks(lflat, Len(lflat) \div n)) # n
        THEN Raised("AssertionError: groups", procs1, dd)
        ELSE IF "bboxes" \in c.has /\ padFound /\ ~sizeBound /\ dd.bboxes # <<>>
        THEN Raised("NameError", procs1, dd)
        ELSE ApplyOut(procs1, c, dd, basis,
                      IF hasKp THEN Regroup(lflat, n) ELSE <<>>)

\* lines 158-171: the keypoints of the pipeline's result dd are filtered
\* against basis and flattened
ApplyFilter(procs1, c, dd, basis, padFound) ==
    ApplyGroups(procs1, c, dd, basis,
                ChainTriples(filter_keypoints(
                    dd.keypoints, basis[1], basis[2],
                    Chain([j \in 1..Len(c.keypoints) |-> c.keypoints[j].visible]))),
                padFound,
                \* height_size and width_size are bound only on this path
                "keypoints" \in c.has /\ padFound)

\* lines 156-169: the pipeline has returned dd
ApplyPipelineResult(tfms, procs1, c, dd, padFound) ==
    ApplyFilter(procs1, c, dd,
                IF padFound THEN ContentSizes[tfms, c.img] ELSE dd.image,
                padFound)

\* params of lines 113-149
Params(c) ==
    LET hasKp == "keypoints" \in c.has
    IN  [image |-> c.img,
         labels |-> IF "labels" \in c.has
                    THEN [i \in 1..Len(c.labels) |-> i - 1] ELSE <<>>,
         bboxes |-> IF "bboxes" \in c.has THEN c.bboxes ELSE <<>>,
         keypoints |->
            IF hasKp
            THEN Chain([j \in 1..Len(c.keypoints) |-> c.keypoints[j].xy])
            ELSE <<>>,
         keypoints_labels |->
            IF hasKp
            THEN Chain([j \in 1..Len(c.keypoints) |-> c.keypoints[j].labels])
            ELSE <<>>,
         masks |-> IF "masks" \in c.has THEN c.masks ELSE <<>>]

\* c: the arguments; o: the pipeline's draw; procs1: the processors after the
\* pops.  The result names how the call ended and the processors, pipeline
\* result and return value it leaves.
ApplyPopped(tfms, procs1, c, o) ==
    IF o.fails THEN Raised("PipelineError", procs1, NoCall)
    ELSE ApplyPipelineResult(tfms, procs1, c,
                             RunPipeline(tfms, procs1, Params(c), o),
                             ~IsNone(get_transform(tfms, "Pad")))

apply(tfms, procs, c, o) ==
    IF CropCheckFails(tfms, "keypoints" \in c.has)
    THEN Raised("AssertionError: crop_fn", procs, NoCall)
    ELSE ApplyPopped(tfms, AfterPops(procs, c.has), c, o)

(***************************************************************************)
(* The samples given to apply and the draws of the pipeline.               *)
(***************************************************************************)
Fields == {"labels", "bboxes", "masks", "iscrowds", "keypoints"}

\* the records of the library: image only, classification, detection,
\* instance segmentation, and instance segmentation with keypoints
CallShapes ==
    { {}, {"labels"}, {"labels", "bboxes"},
      {"labels", "bboxes", "masks", "iscrowds"}, Fields }

\* a keypoint of a sample and where the pipeline moves it: visible and moved
\* into the content region, visible and moved into the padding, not visible
PointCases ==
    { [visible |-> 1, to |-> <<192, 192>>],
      [visible |-> 1, to |-> <<10, 10>>],
      [visible |-> 0, to |-> <<0, 0>>] }

RECURSIVE SumCounts(_)
SumCounts(cs) == IF cs = <<>> THEN 0 ELSE Head(cs) + SumCounts(Tail(cs))

\* how many keypoints each of n instances has: at least one
CountVectors(n) ==
    {cs \in [1..n -> 1..MaxPoints] : SumCounts(cs) <= MaxPoints}

\* the points of a sample, instance by instance: flat cut by the counts cs
RECURSIVE SplitBy(_, _)
SplitBy(flat, cs) ==
    IF cs = <<>> THEN <<>>
    ELSE <<SubSeq(flat, 1, Head(cs))>>
           \o SplitBy(SubSeq(flat, Head(cs) + 1, Len(flat)), Tail(cs))

KpLists(n) ==
    UNION {{SplitBy(flat, cs) : flat \in [1..SumCounts(cs) -> PointCases]} :
              cs \in CountVectors(n)}

\* the box of instance i as parsed, and as the pipeline returns it
ParsedBox(i) == <<10 * i, 20 * i, 200 + 10 * i, 250 + 20 * i>>

MovedBox(i) == <<20 + i, 40 + i, 300 + i, 350 + i>>

MakeCall(img, has, n, kps) ==
    [fn |-> "apply", img |-> img, has |-> has,
     labels |-> IF "labels" \in has THEN [i \in 1..n |-> 1 + (i % 2)] ELSE <<>>,
     bboxes |-> IF "bboxes" \in has THEN [i \in 1..n |-> ParsedBox(i)] ELSE <<>>,
     masks |-> IF "masks" \in has
               THEN [i \in 1..n |-> [src |-> i - 1, val |-> "mask"]] ELSE <<>>,
     iscrowds |-> IF "iscrowds" \in has THEN [i \in 1..n |-> i % 2] ELSE <<>>,
     keypoints |-> IF "keypoints" \in has
                   THEN [i \in 1..n |->
                           [xy |-> [j \in 1..Len(kps[i]) |-> <<10 * i + j, 20 * i + j>>],
                            labels |-> [j \in 1..Len(kps[i]) |-> j],
                            visible |-> [j \in 1..Len(kps[i]) |-> kps[i][j].visible]]]
                   ELSE <<>>]

MakeDraw(n, kps, kept, crop, fails) ==
    [kept |-> kept, crop |-> crop, fails |-> fails,
     boxes |-> [i \in 1..n |-> MovedBox(i)],
     moved |-> Chain([i \in 1..Len(kps) |->
                        [j \in 1..Len(kps[i]) |-> kps[i][j].to]])]

\* what the pipeline may draw: boxes are dropped only by the box processor, a
\* branch is chosen only by OneOrOther, and the library may fail only on data
\* whose processor is gone
KeptSets(procs1, has, n) ==
    IF "bboxes" \in has /\ "bboxes" \in procs1
    THEN SUBSET (0..(n - 1)) ELSE {0..(n - 1)}

CropDraws(tfms) ==
    IF IsNone(get_transform(tfms, "OneOrOther")) THEN {FALSE} ELSE BOOLEAN

FailDraws(procs1, has, n) ==
    IF n > 0 /\ (has \cap {"bboxes", "keypoints"}) \ procs1 # {}
    THEN BOOLEAN ELSE {FALSE}

\* one call of apply on the arguments c with the pipeline's draw o
ApplyCall(c, o) ==
    LET r == apply(tfms_list, processors, c, o)
    IN  /\ call' = c
        /\ processors' = r.processors
        /\ d' = r.d
        /\ out' = r.out
        /\ pc' = r.pc

Apply ==
    /\ pc = "idle"
    /\ \E img \in ImgShapes, has \in CallShapes :
       \E n \in (IF has = {} THEN {0} ELSE 0..MaxN) :
       \E kps \in (IF "keypoints" \in has THEN KpLists(n) ELSE {<<>>}),
          kept \in KeptSets(AfterPops(processors, has), has, n),
          crop \in CropDraws(tfms_list),
          fails \in FailDraws(AfterPops(processors, has), has, n) :
          ApplyCall(MakeCall(img, has, n, kps), MakeDraw(n, kps, kept, crop, fails))
    /\ UNCHANGED <<tfms_list, sizecall, boxcall, kpcall>>

\* the caller takes the result (or the exception) and goes on to the next sample
NextSample ==
    /\ pc # "idle"
    /\ pc' = "idle"
    /\ call' = NoCall
    /\ d' = NoCall
    /\ out' = NoCall
    /\ UNCHANGED <<tfms_list, processors, sizecall, boxcall, kpcall>>

Next == Apply \/ NextSample

Spec == Init /\ [][Next]_vars

(***************************************************************************)
(* Properties of Adapter.apply.                                            *)
(***************************************************************************)
Called == pc # "idle"

Returned == pc = "returned"

HasKeypoints == "keypoints" \in call.has

HasBboxes == "bboxes" \in call.has

PadFound == ~IsNone(get_transform(tfms_list, "Pad"))

CropFound == ~IsNone(get_transform(tfms_list, "OneOrOther"))

\* the pipeline ran in the last call
PipelineRan == Called /\ d # NoCall

\* C1: when apply returns from a call that supplied labels, bboxes, masks and
\* iscrowds (with or without keypoints), the four returned lists have the same
\* length, whichever boxes the pipeline dropped.
C1_Cardinality ==
    (Returned /\ {"labels", "bboxes", "masks", "iscrowds"} \subseteq call.has) =>
        /\ Len(out.labels) = Len(out.bboxes)
        /\ Len(out.bboxes) = Len(out.masks)
        /\ Len(out.masks) = Len(out.iscrowds)

\* a call with all five fields returned fewer instances than the pipeline
\* kept, and at least one
C1_FilteredWitness ==
    /\ Returned
    /\ call.has = Fields
    /\ Len(out.labels) >= 1
    /\ Len(out.labels) < Len(d.labels)
    /\ Len(out.masks) = Len(out.labels)

\* the instance (0-based) that owns the point at flat position pt
RECURSIVE OwnerFrom(_, _, _)
OwnerFrom(kps, pt, j) ==
    IF j > Len(kps) THEN -1
    ELSE IF pt <= Len(kps[j].xy) THEN j - 1
    ELSE OwnerFrom(kps, pt - Len(kps[j].xy), j + 1)

Owner(pt) == OwnerFrom(call.keypoints, pt, 1)

\* every instance of the call has as many keypoints as the first
UniformCounts ==
    \A j \in 1..Len(call.keypoints) :
        Len(call.keypoints[j].xy) = Len(call.keypoints[1].xy)

SrcsOf(xs) == {xs[i].src : i \in 1..Len(xs)}

\* C2 as stated, on samples whose instances have equally many keypoints: at
\* every returned position the label, box, mask, crowd flag and keypoint
\* group belong to the same instance of the call.
C2_IndexCoherence ==
    (Returned /\ "labels" \in call.has /\ (HasKeypoints => UniformCounts)) =>
        /\ \A f \in {"bboxes", "masks", "iscrowds"} \cap call.has :
              /\ Len(out[f]) = Len(out.labels)
              /\ \A i \in 1..Len(out.labels) : out[f][i].src = out.labels[i].src
        /\ HasKeypoints =>
              /\ Len(out.keypoints) = Len(out.labels)
              /\ \A i \in 1..Len(out.labels) :
                    \A e \in 1..Len(out.keypoints[i].xyv) :
                        Owner(out.keypoints[i].xyv[e].pt) = out.labels[i].src

\* the size the keypoints and boxes of the last call were filtered against
Basis == IF PadFound THEN ContentSizes[tfms_list, call.img] ELSE d.image

\* tfms_kps_n of the last call
FilteredKps ==
    filter_keypoints(d.keypoints, Basis[1], Basis[2],
                     Chain([j \in 1..Len(call.keypoints) |->
                               call.keypoints[j].visible]))

\* the filtered keypoints of instance a are all (0, 0, 0)
ZeroGroup(a) ==
    \A pt \in 1..Len(FilteredKps) :
        Owner(pt) = a => FilteredKps[pt] = <<0, 0, 0>>

\* the pipeline dropped the box of instance a
BoxDropped(a) == \A j \in 1..Len(d.labels) : d.labels[j] # a

AbsentEverywhere(a) ==
    /\ \A f \in {"labels", "bboxes", "masks", "iscrowds"} : a \notin SrcsOf(out[f])
    /\ \A i \in 1..Len(out.keypoints) :
          \A e \in 1..Len(out.keypoints[i].xyv) :
              Owner(out.keypoints[i].xyv[e].pt) # a

\* C3 as stated, on samples whose instances have equally many keypoints: an
\* instance is missing from every returned field exactly when the pipeline
\* dropped its box or its filtered keypoints are all zero.
C3_DegenerateDrop ==
    (Returned /\ call.has = Fields /\ UniformCounts) =>
        \A a \in 0..(Len(call.labels) - 1) :
            AbsentEverywhere(a) <=> (BoxDropped(a) \/ ZeroGroup(a))

\* C4 as stated: the processors of the adapter stay as construction left them.
C4_ProcessorsAsConstructed == processors = AllProcessors

\* C5 as stated, for calls that neither hit the crop_fn assertion nor failed
\* in the keypoint regrouping or in the library: with a pad step and bboxes
\* supplied, apply returns, and every returned box is the pipeline's box of
\* its instance clipped by filter_boxes against the re-derived content size.
C5_PadAwareClipping ==
    (Called /\ PadFound /\ HasBboxes
        /\ pc \notin {"AssertionError: crop_fn", "PipelineError",
                      "ZeroDivisionError", "ValueError", "AssertionError: groups"}) =>
        /\ Returned
        /\ \A i \in 1..Len(out.bboxes) :
              \E j \in 1..Len(d.bboxes) :
                  /\ d.bboxes[j].src = out.bboxes[i].src
                  /\ out.bboxes[i].val =
                        filter_boxes(d.bboxes[j].val,
                                     ContentSize(tfms_list, call.img)[1],
                                     ContentSize(tfms_list, call.img)[2])

\* C6: a call with keypoints on a pipeline holding OneOrOther ends in the
\* crop_fn assertion with the pipeline not run and the processors untouched;
\* a call without keypoints never ends in that assertion.
C6_CropKeypointExclusion ==
    [][(pc = "idle" /\ pc' # "idle") =>
          IF CropFound /\ "keypoints" \in call'.has
          THEN /\ pc' = "AssertionError: crop_fn"
               /\ d' = NoCall
               /\ processors' = processors
          ELSE pc' # "AssertionError: crop_fn"]_vars

\* a call with keypoints was refused while both processors were registered
C6_RefusedWitness ==
    /\ pc = "AssertionError: crop_fn"
    /\ HasKeypoints
    /\ Len(call.keypoints) >= 1
    /\ processors = AllProcessors

\* the flat positions of the points of instance j (1-based), each three times
RECURSIVE PointsBefore(_, _)
PointsBefore(kps, j) ==
    IF j <= 1 THEN 0 ELSE Len(kps[j - 1].xy) + PointsBefore(kps, j - 1)

OwnTriples(j) ==
    [i \in 1..(3 * Len(call.keypoints[j].xy)) |->
        PointsBefore(call.keypoints, j) + ((i - 1) \div 3) + 1]

\* l of the last call
Groups == Regroup(ChainTriples(FilteredKps), Len(call.keypoints))

\* C7 as stated: whenever the pipeline has run on a non-empty keypoint list,
\* the flat list is cut into one group per instance and group j holds exactly
\* the points of instance j, in order.
C7_Regrouping ==
    (PipelineRan /\ HasKeypoints /\ Len(call.keypoints) > 0) =>
        /\ Len(Groups) = Len(call.keypoints)
        /\ \A j \in 1..Len(call.keypoints) :
              [i \in 1..Len(Groups[j]) |-> Groups[j][i].pt] = OwnTriples(j)

(***************************************************************************)
(* The three pure helpers, each called on inputs drawn from bounded sets.  *)
(***************************************************************************)
AdapterIdle ==
    /\ tfms_list = <<>>
    /\ processors = {}
    /\ pc = "idle"
    /\ call = NoCall
    /\ d = NoCall
    /\ out = NoCall

SizeInputs ==
    [fn : {"_func_max_size"}, height : 1..MaxDim, width : 1..MaxDim,
     max_size : 1..MaxDim, func : {"min", "max"},
     returned : {FALSE}, result : {<<>>}]

InitSize ==
    /\ AdapterIdle
    /\ sizecall \in SizeInputs
    /\ boxcall = NoCall
    /\ kpcall = NoCall

FuncMaxSizeCall ==
    /\ sizecall.fn = "_func_max_size"
    /\ ~sizecall.returned
    /\ sizecall' = [sizecall EXCEPT !.returned = TRUE, !.result =
           func_max_size(sizecall.height, sizecall.width,
                         sizecall.max_size, sizecall.func)]
    /\ UNCHANGED <<adapterVars, boxcall, kpcall>>

NextSize == FuncMaxSizeCall

SpecSize == InitSize /\ [][NextSize]_vars

(* filter_boxes on every box of a canvas of side max(h, w) *)
BoxInputs ==
    {b \in [fn : {"filter_boxes"}, xyxy : (0..MaxBoxCoord) \X (0..MaxBoxCoord)
                \X (0..MaxBoxCoord) \X (0..MaxBoxCoord),
            h : 1..MaxBoxCoord, w : 1..MaxBoxCoord,
            returned : {FALSE}, result : {<<>>}] :
        /\ b.xyxy[1] < b.xyxy[3]
        /\ b.xyxy[2] < b.xyxy[4]
        /\ b.xyxy[3] <= Max2(b.h, b.w)
        /\ b.xyxy[4] <= Max2(b.h, b.w)}

InitBoxes ==
    /\ AdapterIdle
    /\ sizecall = NoCall
    /\ boxcall \in BoxInputs
    /\ kpcall = NoCall

FilterBoxesCall ==
    /\ boxcall.fn = "filter_boxes"
    /\ ~boxcall.returned
    /\ boxcall' = [boxcall EXCEPT !.returned = TRUE, !.result =
                       filter_boxes(boxcall.xyxy, boxcall.h, boxcall.w)]
    /\ UNCHANGED <<adapterVars, sizecall, kpcall>>

NextBoxes == FilterBoxesCall

SpecBoxes == InitBoxes /\ [][NextBoxes]_vars

Visibilities == {0, 1, 2}

KpPoints == (0..MaxKpCoord) \X (0..MaxKpCoord)

SeqsUpTo(S, n) == UNION {[1..k -> S] : k \in 0..n}

KpInputs ==
    {c \in [fn : {"filter_keypoints"}, tfms_kps : SeqsUpTo(KpPoints, MaxKps),
            v : SeqsUpTo(Visibilities, MaxKps),
            h : 1..MaxKpCoord, w : 1..MaxKpCoord,
            returned : {FALSE}, heap : {<<>>}, result : {<<>>}] :
        Len(c.tfms_kps) = Len(c.v)}

InitKps ==
    /\ AdapterIdle
    /\ sizecall = NoCall
    /\ boxcall = NoCall
    /\ kpcall \in KpInputs

FilterKeypointsCall ==
    /\ kpcall.fn = "filter_keypoints"
    /\ ~kpcall.returned
    /\ LET run == FilterKeypointsRun(kpcall.tfms_kps, kpcall.h, kpcall.w, kpcall.v)
       IN  kpcall' = [kpcall EXCEPT !.returned = TRUE, !.heap = run.heap,
                                    !.result = run.result]
    /\ UNCHANGED <<adapterVars, sizecall, boxcall>>

NextKps == FilterKeypointsCall

SpecKps == InitKps /\ [][NextKps]_vars

\* the content band of a centred pad: canvas side, pad, and the padded axis
CanvasSide(h, w) == Max2(h, w)

CanvasPad(h, w) == (Max2(h, w) - Min2(h, w)) \div 2

InBand(c, h, w) == c >= CanvasPad(h, w) /\ c <= CanvasSide(h, w) - CanvasPad(h, w)

\* C8 as stated: both returned coordinates on the padded axis (y when w >= h,
\* x when h > w) lie within [pad, canvas_side - pad], and the two coordinates
\* on the other axis are returned unchanged.
C8_FilterBoxesWithinBand ==
    (boxcall.fn = "filter_boxes" /\ boxcall.returned) =>
        LET r == boxcall.result
            b == boxcall.xyxy
        IN  IF boxcall.w >= boxcall.h
            THEN /\ InBand(r[2], boxcall.h, boxcall.w)
                 /\ InBand(r[4], boxcall.h, boxcall.w)
                 /\ r[1] = b[1] /\ r[3] = b[3]
            ELSE /\ InBand(r[1], boxcall.h, boxcall.w)
                 /\ InBand(r[3], boxcall.h, boxcall.w)
                 /\ r[2] = b[2] /\ r[4] = b[4]

\* the content region of a point: inside the band on the padded axis, inside
\* the canvas on the other
InContent(p, h, w) ==
    IF w >= h
    THEN p[1] >= 0 /\ p[1] <= CanvasSide(h, w) /\ InBand(p[2], h, w)
    ELSE p[2] >= 0 /\ p[2] <= CanvasSide(h, w) /\ InBand(p[1], h, w)

KpReturned == kpcall.fn = "filter_keypoints" /\ kpcall.returned

\* C9: filter_keypoints returns as many triples as it was given points; a
\* visible point outside the content region and an invisible point become
\* (0, 0, 0); a visible point inside keeps its coordinates and its original
\* visibility; the caller's point and visibility lists are left as they were.
C9_FilterKeypointsSuppresses ==
    KpReturned =>
        /\ Len(kpcall.result) = Len(kpcall.tfms_kps)
        /\ \A i \in 1..Len(kpcall.tfms_kps) :
              LET p == kpcall.tfms_kps[i]
                  vis == kpcall.v[i]
              IN  kpcall.result[i] =
                     IF vis # 0 /\ InContent(p, kpcall.h, kpcall.w)
                     THEN <<p[1], p[2], vis>>
                     ELSE <<0, 0, 0>>
        /\ kpcall.heap["tfms_kps"] = kpcall.tfms_kps
        /\ kpcall.heap["v"] = kpcall.v

\* a returned call in which a point of visibility 1 lay in the padding
C9_SuppressedWitness ==
    /\ KpReturned
    /\ \E i \in 1..Len(kpcall.tfms_kps) :
          /\ kpcall.v[i] = 1
          /\ kpcall.tfms_kps[i] # <<0, 0>>
          /\ ~InContent(kpcall.tfms_kps[i], kpcall.h, kpcall.w)
          /\ kpcall.result[i] = <<0, 0, 0>>

\* dim * max_size / side as an exact fraction, rounded to the nearest integer,
\* an exact .5 tie going to the even neighbour
ExactHalfEven(num, den) ==
    LET q == num \div den
        r == num % den
    IN  IF 2 * r < den THEN q
        ELSE IF 2 * r > den THEN q + 1
        ELSE IF q % 2 = 0 THEN q ELSE q + 1

RECURSIVE OddPart(_)
OddPart(n) == IF n % 2 = 0 THEN OddPart(n \div 2) ELSE n

\* max_size / side is a dyadic rational: the float division is exact
ExactScale(max_size, side) == max_size % OddPart(side) = 0

Abs(x) == IF x < 0 THEN -x ELSE x

SizeReturned == sizecall.fn = "_func_max_size" /\ sizecall.returned

SizeSide == FuncApply(sizecall.func, sizecall.width, sizecall.height)

\* C10 as stated: unchanged when max_size equals the selected side, otherwise
\* each dimension is dim * max_size / side rounded to the nearest integer with
\* exact .5 ties to the even integer, and the selected side becomes max_size.
C10_FuncMaxSizeTiesToEven ==
    SizeReturned =>
        IF sizecall.max_size = SizeSide
        THEN sizecall.result = <<sizecall.height, sizecall.width>>
        ELSE /\ sizecall.result =
                  <<ExactHalfEven(sizecall.height * sizecall.max_size, SizeSide),
                    ExactHalfEven(sizecall.width * sizecall.max_size, SizeSide)>>
             /\ FuncApply(sizecall.func, sizecall.result[2], sizecall.result[1])
                  = sizecall.max_size

\* C10 amended: unchanged when max_size equals the selected side; otherwise each
\* dimension is within one half of dim * max_size / side (a nearest integer),
\* it is the ties-to-even rounding whenever max_size / side is exactly
\* representable in binary floating point, and the selected side becomes
\* max_size.
C10_FuncMaxSizeNearest ==
    SizeReturned =>
        IF sizecall.max_size = SizeSide
        THEN sizecall.result = <<sizecall.height, sizecall.width>>
        ELSE /\ 2 * Abs(sizecall.result[1] * SizeSide
                        - sizecall.height * sizecall.max_size) <= SizeSide
             /\ 2 * Abs(sizecall.result[2] * SizeSide
                        - sizecall.width * sizecall.max_size) <= SizeSide
             /\ ExactScale(sizecall.max_size, SizeSide) =>
                  sizecall.result =
                    <<ExactHalfEven(sizecall.height * sizecall.max_size, SizeSide),
                      ExactHalfEven(sizecall.width * sizecall.max_size, SizeSide)>>
             /\ FuncApply(sizecall.func, sizecall.result[2], sizecall.result[1])
                  = sizecall.max_size

\* a returned call that scaled 5 by 1/2: the exact tie 2.5 went to 2
C10_TieWitness ==
    /\ SizeReturned
    /\ sizecall.max_size # SizeSide
    /\ (2 * sizecall.width * sizecall.max_size) % SizeSide = 0
    /\ ((2 * sizecall.width * sizecall.max_size) \div SizeSide) % 4 = 1
    /\ sizecall.result[2] % 2 = 0

====
